---- MODULE Spec2Model ----
(***************************************************************************)
(* Model of miner.js: KaleidoMiningBot (one Agent per wallet) and          *)
(* MiningCoordinator (the fleet, the SIGINT drain).                        *)
(*                                                                         *)
(* Units.  Date.now() is counted in ticks of 1000/0.00755 ms, so that      *)
(* hashrate * timeElapsed * 0.0001 (75.5 * seconds * 0.0001) is exactly    *)
(* the number of elapsed ticks; amounts are whole KLDO.  Timers (the 30 s  *)
(* idle delay, the 2000*(i+1) ms backoff) are shorter than one tick: they  *)
(* fire at any moment relative to Tick.                                    *)
(*                                                                         *)
(* Every await of the source is a suspension point: an action runs from    *)
(* the completion of one awaited operation to the next await, as the       *)
(* single-threaded event loop does.                                        *)
(***************************************************************************)
EXTENDS Integers, Sequences, FiniteSets, TLC

(***************************************************************************)
(* Bounds of the model.                                                    *)
(***************************************************************************)
MaxTime == 3          \* Date.now() ranges over StartClock..MaxTime
MaxCycles == 2        \* periodic updateBalance() calls per Agent
MaxInterrupts == 2    \* SIGINT signals delivered in one run
MaxWriteFailures == 1 \* failed fs.writeFile calls in one run
FewFailures == 1      \* failed request attempts, in the runs that limit them
MaxExtraCalls == 1    \* repeated constructions, repeated start() calls
MaxRetries == 4       \* ceilings tried for retryRequest on its own
OwnBalance == 1       \* a balance the server holds that is not the one proposed
MaxLines == 2         \* lines of wallets.txt, where every list of lines is tried

(***************************************************************************)
(* JavaScript values.  Numbers are integers; null, undefined and NaN are   *)
(* three values outside the range the model computes with.                 *)
(***************************************************************************)
Null == -1000001
Undefined == -1000002
NaN == -1000003
NoObject == << >>     \* a variable that holds undefined where an object is expected

ToNumber(v) == IF v = Null THEN 0 ELSE IF v = Undefined THEN NaN ELSE v
Add(a, b) == LET x == ToNumber(a)
                 y == ToNumber(b)
             IN  IF x = NaN \/ y = NaN THEN NaN ELSE x + y
Sub(a, b) == LET x == ToNumber(a)
                 y == ToNumber(b)
             IN  IF x = NaN \/ y = NaN THEN NaN ELSE x - y
Mul(a, b) == LET x == ToNumber(a)
                 y == ToNumber(b)
             IN  IF x = NaN \/ y = NaN THEN NaN ELSE x * y
Truthy(v) == v \notin {Null, Undefined, NaN, 0}
IsObject(o) == DOMAIN o # {}

StartClock == 2

(***************************************************************************)
(* wallets.txt: a sequence of lines, each a sequence of characters.        *)
(***************************************************************************)
HexLen == 40
HexChars == {"0", "1", "2", "3", "4", "5", "6", "7", "8", "9",
             "a", "b", "c", "d", "e", "f", "A", "B", "C", "D", "E", "F"}
Repeat(c, n) == [k \in 1..n |-> c]
LineA == <<"0", "x">> \o Repeat("a", HexLen)
LineB == <<"0", "x">> \o Repeat("B", HexLen)
LineShort == <<"0", "x">> \o Repeat("a", HexLen - 1)
LinePadded == <<" ">> \o LineA \o <<" ">>
LineNotHex == <<"0", "x">> \o Repeat("g", HexLen)
LineLong == <<"0", "x">> \o Repeat("a", HexLen + 1)
LineUpperX == <<"0", "X">> \o Repeat("a", HexLen)
LineMixed == <<"0", "x">> \o Repeat("9", HexLen - 1) \o <<"F">>
LineInner == <<"0", "x", " ">> \o Repeat("a", HexLen)
LineEmpty == << >>
Unreadable == <<"ENOENT">>

RECURSIVE TrimStart(_)
TrimStart(s) == IF s # << >> /\ Head(s) = " " THEN TrimStart(Tail(s)) ELSE s
RECURSIVE TrimEnd(_)
TrimEnd(s) == IF s # << >> /\ s[Len(s)] = " " THEN TrimEnd(SubSeq(s, 1, Len(s) - 1)) ELSE s
trim(s) == TrimEnd(TrimStart(s))

\* the pattern without its end anchor
WalletRegex_noEndAnchor(line) ==
    /\ Len(line) >= 2 + HexLen
    /\ line[1] = "0"
    /\ line[2] = "x"
    /\ \A k \in 3..(2 + HexLen) : line[k] \in HexChars

\* /^0x[a-fA-F0-9]{40}$/.test(line)
WalletRegex(line) ==
    /\ Len(line) = 2 + HexLen
    /\ line[1] = "0"
    /\ line[2] = "x"
    /\ \A k \in 3..Len(line) : line[k] \in HexChars

RECURSIVE FilterWallets(_)
FilterWallets(lines) ==
    IF lines = << >> THEN << >>
    ELSE LET l == trim(Head(lines))
         IN  IF WalletRegex(l) THEN <<l>> \o FilterWallets(Tail(lines))
             ELSE FilterWallets(Tail(lines))

loadWallets(file) == IF file = Unreadable THEN << >> ELSE FilterWallets(file)

SoloFiles == { Unreadable, << >>, <<LineNotHex>>, <<LineShort, LineA>> }
FleetFiles == { <<LineA, LineB>>, <<LineA, LinePadded>> }
WalletSet == {LineA, LineB}

\* every wallets.txt of at most MaxLines lines taken from these
SampleLines == {LineA, LineB, LineShort, LinePadded, LineNotHex, LineLong, LineUpperX,
                LineMixed, LineInner, LineEmpty}
WalletLists == {Unreadable} \cup UNION {[1..n -> SampleLines] : n \in 0..MaxLines}

(***************************************************************************)
(* State.                                                                  *)
(***************************************************************************)
VARIABLES
    walletsFile,      \* content of wallets.txt
    files,            \* session_<wallet>.json, by wallet
    now,              \* Date.now()
    instance,         \* MiningCoordinator.instance is set
    isRunning,        \* MiningCoordinator.isRunning
    bots,             \* MiningCoordinator.bots: <<[wallet, botIndex], ...>>
    totalPaid,        \* MiningCoordinator.totalPaid
    startPc,          \* position of start()
    handlers,         \* number of SIGINT listeners registered
    sigints,          \* SIGINT signals delivered so far
    proc,             \* the process: running, exited, crashed, killed
    currentEarnings,  \* per Agent: {total, pending, paid}
    miningState,      \* per Agent: [isActive, startTime]
    referralBonus,    \* per Agent
    tasks,            \* per Agent: the async calls in progress (0: initialize, k: k-th stop)
    cycles,           \* per Agent: periodic updateBalance() calls made
    budget,           \* what the environment may do in this run
    used,             \* what it has done of it
    rt                \* retryRequest run on its own

vars == << walletsFile, files, now, instance, isRunning, bots, totalPaid, startPc,
           handlers, sigints, proc, currentEarnings, miningState, referralBonus,
           tasks, cycles, budget, used, rt >>

agentVars == << currentEarnings, miningState, referralBonus, tasks, cycles >>
coordVars == << instance, isRunning, bots, totalPaid, startPc, handlers >>

Bots == 1..Len(bots)
Tids == 0..budget.interrupts

(***************************************************************************)
(* Session store.                                                          *)
(***************************************************************************)
Missing == << >>      \* no file, a file that cannot be read, or one JSON.parse rejects
EmptyObject == [startTime |-> Undefined, earnings |-> NoObject, referralBonus |-> Undefined]
PriorSession == [startTime |-> 1,
                 earnings |-> [total |-> 2, pending |-> 0, paid |-> 1],
                 referralBonus |-> 1]

\* JSON.stringify writes NaN as null and leaves out undefined members
JSONvalue(v) == IF v = NaN THEN Null ELSE v
JSONstringify(sessionData) ==
    [startTime |-> JSONvalue(sessionData.startTime),
     earnings |-> IF IsObject(sessionData.earnings)
                  THEN [k \in DOMAIN sessionData.earnings |-> JSONvalue(sessionData.earnings[k])]
                  ELSE NoObject,
     referralBonus |-> JSONvalue(sessionData.referralBonus)]

\* the sessionData object built at the top of saveSession()
SessionData(ms, ce, rb) ==
    [startTime |-> ms.startTime, earnings |-> ce, referralBonus |-> rb]

\* the record an earlier run left when its Agent was stopped before it was active:
\* saveSession() of stop() on the fields the constructor set
StoppedEarlySession ==
    JSONstringify(SessionData([isActive |-> FALSE, startTime |-> Null],
                              [total |-> 0, pending |-> 0, paid |-> 0], 0))

InitialFiles == {Missing, PriorSession, EmptyObject, StoppedEarlySession}

(***************************************************************************)
(* Earnings accrual and validation.                                        *)
(***************************************************************************)
calculateEarnings(ms, rb, t) ==
    IF ~Truthy(ms.startTime) THEN 0
    ELSE Mul(Sub(t, ms.startTime), Add(1, rb))

\* validateEarnings without its last test
validateEarnings_noSignTest(earnings) ==
    /\ earnings \notin {Null, Undefined}
    /\ earnings # NaN

validateEarnings(earnings) ==
    /\ earnings \notin {Null, Undefined}
    /\ earnings # NaN
    /\ earnings >= 0

(***************************************************************************)
(* retryRequest: the frame of one call.                                    *)
(***************************************************************************)
Retries == 3
BackoffMs == 2000
NoReq == [i |-> 0, retries |-> 0, calls |-> 0, delays |-> << >>, status |-> "none", result |-> 0]

\* requestFn() is invoked at the top of the try block
RetryCall(f) == [f EXCEPT !.calls = @ + 1, !.status = "awaiting"]

\* the for loop is entered with i = 0
RetryEnter(retries) ==
    LET f == [NoReq EXCEPT !.retries = retries]
    IN  IF 0 < retries THEN RetryCall(f) ELSE [f EXCEPT !.status = "fellthrough"]

\* return await requestFn(): the value of call number f.calls is returned
RetryResolve(f) == [f EXCEPT !.status = "returned", !.result = f.calls]

\* the catch block testing i === retries
RetryCatch_offByOne(f) ==
    IF f.i = f.retries
    THEN [f EXCEPT !.status = "thrown", !.result = f.calls]
    ELSE [f EXCEPT !.status = "sleeping", !.delays = Append(@, BackoffMs * (f.i + 1))]

\* catch (error): rethrow on the last attempt, otherwise sleep 2000 * (i + 1)
RetryCatch(f) ==
    IF f.i = f.retries - 1
    THEN [f EXCEPT !.status = "thrown", !.result = f.calls]
    ELSE [f EXCEPT !.status = "sleeping", !.delays = Append(@, BackoffMs * (f.i + 1))]

\* the timer fires: i++, loop test, next attempt
RetryWake(f) ==
    LET g == [f EXCEPT !.i = @ + 1]
    IN  IF g.i < g.retries THEN RetryCall(g) ELSE [g EXCEPT !.status = "fellthrough"]

(***************************************************************************)
(* Async calls of one Agent.                                               *)
(***************************************************************************)
NoTask == [pc |-> "none", req |-> NoReq, regResponse |-> NoObject,
           newEarnings |-> 0, finalUpdate |-> FALSE, payload |-> NoObject,
           response |-> NoObject, sessionData |-> NoObject, retval |-> Undefined,
           \* what the call has been through: started on an active Agent (stop),
           \* left updateBalance() at the validation, had a response applied
           wasActive |-> FALSE, invalid |-> FALSE, synced |-> FALSE,
           \* initialize() found no session; periodic updates applied so far (loop);
           \* those applied when stop() was called, the increment its final update
           \* computed and the one it folded into paid (stop)
           fresh |-> FALSE, syncs |-> 0,
           priorSyncs |-> 0, increment |-> 0, folded |-> 0]

\* the locals of a call are dropped, what it has been through is kept
Done(task) == [NoTask EXCEPT !.wasActive = task.wasActive, !.invalid = task.invalid,
                             !.synced = task.synced, !.fresh = task.fresh,
                             !.syncs = task.syncs, !.priorSyncs = task.priorSyncs,
                             !.increment = task.increment, !.folded = task.folded]

\* the assignment folding the increment into the total instead of paid
applyResponse_paidFromTotal(ce, newEarnings, finalUpdate, balance) ==
    [total |-> balance,
     pending |-> IF finalUpdate THEN 0 ELSE newEarnings,
     paid |-> IF finalUpdate THEN Add(ce.total, newEarnings) ELSE ce.paid]

\* the assignment folding the increment into paid on every update
applyResponse_alwaysPaid(ce, newEarnings, finalUpdate, balance) ==
    [total |-> balance,
     pending |-> IF finalUpdate THEN 0 ELSE newEarnings,
     paid |-> Add(ce.paid, newEarnings)]

\* this.currentEarnings = { total: response.data.balance, ... }   (lines 161-165)
applyResponse(ce, newEarnings, finalUpdate, balance) ==
    [total |-> balance,
     pending |-> IF finalUpdate THEN 0 ELSE newEarnings,
     paid |-> IF finalUpdate THEN Add(ce.paid, newEarnings) ELSE ce.paid]

\* updateBalance(finalUpdate) up to its first await; pc "ret" when it returns at once
updateBalance(task, finalUpdate, ce, ms, rb, t) ==
    LET newEarnings == calculateEarnings(ms, rb, t)
    IN  IF ~validateEarnings(newEarnings) THEN [task EXCEPT !.pc = "ret", !.invalid = TRUE]
        ELSE IF ~IsObject(ce) THEN [task EXCEPT !.pc = "ret"]   \* TypeError, caught
        ELSE [task EXCEPT
                !.pc = "ub",
                !.newEarnings = newEarnings,
                !.increment = IF finalUpdate THEN newEarnings ELSE 0,
                !.finalUpdate = finalUpdate,
                !.payload = [total |-> Add(ce.total, newEarnings),
                             pending |-> IF finalUpdate THEN 0 ELSE newEarnings,
                             paid |-> IF finalUpdate THEN Add(ce.paid, newEarnings) ELSE ce.paid],
                !.req = RetryEnter(Retries)]

\* the loop ending when an update was not applied
afterUpdate_failureEndsLoop(task, tid, ce, ms, rb) ==
    IF task.pc # "ret" THEN task
    ELSE IF tid = 0 THEN [Done(task) EXCEPT !.pc = IF task.synced THEN "loop_idle" ELSE "loop_done"]
    ELSE [Done(task) EXCEPT !.pc = "stop_save", !.sessionData = SessionData(ms, ce, rb)]

\* what the caller of updateBalance() does once it has returned:
\* startMiningLoop sleeps 30 s, stop() calls saveSession()
afterUpdate(task, tid, ce, ms, rb) ==
    IF task.pc # "ret" THEN task
    ELSE IF tid = 0 THEN [Done(task) EXCEPT !.pc = "loop_idle"]
    ELSE [Done(task) EXCEPT !.pc = "stop_save", !.sessionData = SessionData(ms, ce, rb)]

(***************************************************************************)
(* What GET /check-registration may answer.                                *)
(***************************************************************************)
RegBonuses == {Undefined, 1, -2}
NotRegistered == [isRegistered |-> FALSE, userData |-> NoObject]
NoUserData == [isRegistered |-> TRUE, userData |-> NoObject]
Registered(bonuses) == {[isRegistered |-> TRUE, userData |-> [referralBonus |-> v]] : v \in bonuses}
RegResponses == {NotRegistered, NoUserData} \cup Registered(RegBonuses)

(***************************************************************************)
(* Initial state: the module is loaded, nothing is constructed.            *)
(***************************************************************************)
InitRt == [f |-> NoReq, script |-> << >>]

InitWith(fileSet, sessions, b) ==
    /\ walletsFile \in fileSet
    /\ files \in [WalletSet -> sessions]
    /\ files[LineB] = Missing
    /\ now = StartClock
    /\ instance = FALSE
    /\ isRunning = FALSE
    /\ bots = << >>
    /\ totalPaid = 0
    /\ startPc = "idle"
    /\ handlers = 0
    /\ sigints = 0
    /\ proc = "running"
    /\ currentEarnings = << >>
    /\ miningState = << >>
    /\ referralBonus = << >>
    /\ tasks = << >>
    /\ cycles = << >>
    /\ budget = b
    /\ used = [constructions |-> 0, starts |-> 0, failures |-> 0, writeFailures |-> 0]

\* One Agent and one interrupt; one Agent and repeated interrupts; two Agents.
\* Repeated constructor and start() calls are explored with one Agent and one interrupt;
\* with two Agents the server answers an update with the total proposed to it.
\* With lateTicks the clock advances only once every Agent has left initialization.
Init == rt = InitRt /\ InitWith(SoloFiles, InitialFiles,
                 [cycles |-> MaxCycles, interrupts |-> 1, ticks |-> MaxTime - StartClock,
                  lateTicks |-> FALSE,
                  limitFailures |-> FALSE, failures |-> 0, writeFailures |-> MaxWriteFailures,
                  extraCalls |-> MaxExtraCalls, ownBalance |-> TRUE,
                  regResponses |-> RegResponses])
InitDrain == rt = InitRt /\ InitWith(SoloFiles, InitialFiles,
                      [cycles |-> 1, interrupts |-> MaxInterrupts, ticks |-> 1, lateTicks |-> TRUE,
                       limitFailures |-> TRUE, failures |-> FewFailures, writeFailures |-> 0,
                       extraCalls |-> 0, ownBalance |-> TRUE,
                       regResponses |-> RegResponses])
InitFleet == rt = InitRt /\ InitWith(FleetFiles, {Missing},
                      [cycles |-> 1, interrupts |-> 1, ticks |-> 1, lateTicks |-> TRUE,
                       limitFailures |-> TRUE, failures |-> FewFailures, writeFailures |-> 0,
                       extraCalls |-> 0, ownBalance |-> FALSE,
                       regResponses |-> {NotRegistered} \cup Registered({Undefined})])

(***************************************************************************)
(* MiningCoordinator.                                                      *)
(***************************************************************************)
\* Repeated constructor and start() calls touch no Agent and no Agent step touches
\* what they read: they are explored before the first Agent step and before any signal.
Quiet == sigints = 0 /\ \A b \in Bots : tasks[b][0].pc = "reg" /\ tasks[b][0].req.calls = 1

\* the constructor without its test of MiningCoordinator.instance
Construct_reinitializes ==
    /\ proc = "running"
    /\ instance => (used.constructions < budget.extraCalls /\ Quiet)
    /\ used' = IF instance THEN [used EXCEPT !.constructions = @ + 1] ELSE used
    /\ instance' = TRUE
    /\ bots' = << >>
    /\ totalPaid' = 0
    /\ isRunning' = FALSE
    /\ UNCHANGED << walletsFile, files, now, startPc, handlers, sigints, proc,
                    agentVars, budget, rt >>

\* new MiningCoordinator()
Construct ==
    /\ proc = "running"
    /\ IF instance
       THEN /\ used.constructions < budget.extraCalls
            /\ Quiet
            /\ used' = [used EXCEPT !.constructions = @ + 1]
            /\ UNCHANGED << instance, bots, totalPaid, isRunning >>
       ELSE /\ instance' = TRUE
            /\ bots' = << >>
            /\ totalPaid' = 0
            /\ isRunning' = FALSE
            /\ UNCHANGED used
    /\ UNCHANGED << walletsFile, files, now, startPc, handlers, sigints, proc,
                    agentVars, budget, rt >>

\* start() up to await this.loadWallets()
Start ==
    /\ proc = "running"
    /\ instance
    /\ IF isRunning
       THEN /\ used.starts < budget.extraCalls
            /\ Quiet
            /\ used' = [used EXCEPT !.starts = @ + 1]
            /\ UNCHANGED << isRunning, startPc >>
       ELSE /\ isRunning' = TRUE
            /\ startPc' = "loading"
            /\ UNCHANGED used
    /\ UNCHANGED << walletsFile, files, now, instance, bots, totalPaid, handlers,
                    sigints, proc, agentVars, budget, rt >>

\* new KaleidoMiningBot(wallet, index + 1); bot.initialize() up to its first await
NewBotTasks == [t \in Tids |-> IF t = 0 THEN [NoTask EXCEPT !.pc = "reg", !.req = RetryEnter(Retries)]
                                ELSE NoTask]

\* start() from the completion of loadWallets() to its end
WalletsLoaded ==
    /\ proc = "running"
    /\ startPc = "loading"
    /\ LET wallets == loadWallets(walletsFile)
       IN  IF Len(wallets) = 0
           THEN /\ startPc' = "aborted"
                /\ UNCHANGED << bots, handlers, agentVars >>
           ELSE /\ startPc' = "started"
                /\ bots' = [k \in 1..Len(wallets) |-> [wallet |-> wallets[k], botIndex |-> k]]
                /\ currentEarnings' = [k \in 1..Len(wallets) |-> [total |-> 0, pending |-> 0, paid |-> 0]]
                /\ miningState' = [k \in 1..Len(wallets) |-> [isActive |-> FALSE, startTime |-> Null]]
                /\ referralBonus' = [k \in 1..Len(wallets) |-> 0]
                /\ tasks' = [k \in 1..Len(wallets) |-> NewBotTasks]
                /\ cycles' = [k \in 1..Len(wallets) |-> 0]
                /\ handlers' = handlers + 1
    /\ UNCHANGED << walletsFile, files, now, instance, isRunning, totalPaid, sigints,
                    proc, budget, used, rt >>

(***************************************************************************)
(* KaleidoMiningBot.                                                       *)
(***************************************************************************)

\* the balance the server answers: the total proposed, or a balance of its own
ServerBalances(payload) ==
    IF IsObject(payload)
    THEN {payload.total} \cup (IF budget.ownBalance THEN {OwnBalance} ELSE {})
    ELSE {}

SetTask(b, t, task) == tasks' = [tasks EXCEPT ![b][t] = task]

\* an attempt of retryRequest fails (transport error or error status)
RequestFails(b, t) ==
    /\ proc = "running"
    /\ tasks[b][t].pc \in {"reg", "ub"}
    /\ tasks[b][t].req.status = "awaiting"
    /\ budget.limitFailures => used.failures < budget.failures
    /\ used' = IF budget.limitFailures THEN [used EXCEPT !.failures = @ + 1] ELSE used
    /\ LET task == tasks[b][t]
           f == RetryCatch(task.req)
       IN  IF f.status = "sleeping"
           THEN SetTask(b, t, [task EXCEPT !.req = f])
           ELSE IF task.pc = "reg"
           THEN SetTask(b, t, [task EXCEPT !.req = f, !.pc = "init_failed"])
           ELSE SetTask(b, t, afterUpdate([task EXCEPT !.pc = "ret"], t, currentEarnings[b],
                                          miningState[b], referralBonus[b]))
    /\ UNCHANGED << walletsFile, files, now, coordVars, sigints, proc,
                    currentEarnings, miningState, referralBonus, cycles, budget, rt >>

\* the backoff timer of retryRequest fires
BackoffElapsed(b, t) ==
    /\ proc = "running"
    /\ tasks[b][t].pc \in {"reg", "ub"}
    /\ tasks[b][t].req.status = "sleeping"
    /\ LET task == tasks[b][t]
           f == RetryWake(task.req)
       IN  IF f.status = "awaiting"
           THEN SetTask(b, t, [task EXCEPT !.req = f])
           \* the loop ran out: retryRequest returned undefined, reading .data throws
           ELSE IF task.pc = "reg"
           THEN SetTask(b, t, [task EXCEPT !.req = f, !.pc = "init_failed"])
           ELSE SetTask(b, t, afterUpdate([task EXCEPT !.pc = "ret"], t, currentEarnings[b],
                                          miningState[b], referralBonus[b]))
    /\ UNCHANGED << walletsFile, files, now, coordVars, sigints, proc,
                    currentEarnings, miningState, referralBonus, cycles, budget, used, rt >>

\* initialize(): the registration check answers; on success loadSession() starts reading
RegResponse(b, resp) ==
    /\ proc = "running"
    /\ tasks[b][0].pc = "reg"
    /\ tasks[b][0].req.status = "awaiting"
    /\ resp \in budget.regResponses
    /\ LET task == [tasks[b][0] EXCEPT !.req = RetryResolve(@), !.regResponse = resp]
       IN  IF ~resp.isRegistered
           THEN SetTask(b, 0, [task EXCEPT !.pc = "init_failed"])
           ELSE SetTask(b, 0, [task EXCEPT !.pc = "load"])
    /\ UNCHANGED << walletsFile, files, now, coordVars, sigints, proc,
                    currentEarnings, miningState, referralBonus, cycles, budget, used, rt >>

\* JSON.parse(data) and the three assignments of loadSession()
loadSession(data, ms, ce, rb) ==
    IF data = Missing
    THEN [hasSession |-> FALSE, ms |-> ms, ce |-> ce, rb |-> rb]
    ELSE [hasSession |-> TRUE,
          ms |-> [ms EXCEPT !.startTime = data.startTime],
          ce |-> data.earnings,
          rb |-> data.referralBonus]

\* initialize() from the completion of fs.readFile to the first await of the mining loop
LoadDone(b) ==
    /\ proc = "running"
    /\ tasks[b][0].pc = "load"
    /\ LET task == tasks[b][0]
           data == files[bots[b].wallet]
           ld == loadSession(data, miningState[b], currentEarnings[b], referralBonus[b])
           userData == task.regResponse.userData
       IN  IF ~ld.hasSession /\ ~IsObject(userData)
           THEN \* regResponse.data.userData.referralBonus throws: caught by initialize()
                /\ SetTask(b, 0, [task EXCEPT !.pc = "init_failed"])
                /\ UNCHANGED << currentEarnings, miningState, referralBonus, cycles >>
           ELSE LET rb == IF ld.hasSession THEN ld.rb
                          ELSE IF Truthy(userData.referralBonus) THEN userData.referralBonus ELSE 0
                    ce == IF ld.hasSession THEN ld.ce
                          ELSE [total |-> rb, pending |-> 0, paid |-> 0]
                    st == IF ~ld.hasSession \/ ~Truthy(ld.ms.startTime) THEN now
                          ELSE ld.ms.startTime
                    ms == [isActive |-> TRUE, startTime |-> st]
                    call == updateBalance([NoTask EXCEPT !.fresh = ~ld.hasSession],
                                          FALSE, ce, ms, rb, now)
                IN  /\ referralBonus' = [referralBonus EXCEPT ![b] = rb]
                    /\ currentEarnings' = [currentEarnings EXCEPT ![b] = ce]
                    /\ miningState' = [miningState EXCEPT ![b] = ms]
                    /\ cycles' = [cycles EXCEPT ![b] = @ + 1]
                    /\ SetTask(b, 0, afterUpdate(call, 0, ce, ms, rb))
    /\ UNCHANGED << walletsFile, files, now, coordVars, sigints, proc, budget, used, rt >>

\* the test of the response without the success flag
responseApplied_anyResponse(success, ce) == IsObject(ce)

\* if (response.data.success) and the read of this.currentEarnings.paid that follows
responseApplied(success, ce) == success /\ IsObject(ce)

\* updateBalance(): the update-balance request answers with {success, balance}
UpdateResponse(b, t, success, balance) ==
    /\ proc = "running"
    /\ tasks[b][t].pc = "ub"
    /\ tasks[b][t].req.status = "awaiting"
    /\ balance \in ServerBalances(tasks[b][t].payload)
    /\ LET task == [tasks[b][t] EXCEPT !.req = RetryResolve(@),
                                       !.response = [success |-> success, balance |-> balance]]
       IN  IF responseApplied(success, currentEarnings[b])
           THEN LET ce == applyResponse(currentEarnings[b], task.newEarnings,
                                        task.finalUpdate, balance)
                IN  /\ currentEarnings' = [currentEarnings EXCEPT ![b] = ce]
                    /\ SetTask(b, t, [task EXCEPT
                            !.pc = "ub_save",
                            !.synced = TRUE,
                            !.syncs = IF task.finalUpdate THEN @ ELSE @ + 1,
                            !.folded = IF task.finalUpdate THEN task.newEarnings ELSE 0,
                            !.sessionData = SessionData(miningState[b], ce, referralBonus[b])])
           ELSE \* success is false, or reading this.currentEarnings.paid threw and was caught
                /\ UNCHANGED currentEarnings
                /\ SetTask(b, t, afterUpdate([task EXCEPT !.pc = "ret"], t, currentEarnings[b],
                                             miningState[b], referralBonus[b]))
    /\ UNCHANGED << walletsFile, files, now, coordVars, sigints, proc,
                    miningState, referralBonus, cycles, budget, used, rt >>

RECURSIVE SumPaid(_, _)
SumPaid(ts, k) == IF ts = << >> THEN 0
                  ELSE Add(SumPaid(SubSeq(ts, 1, Len(ts) - 1), k), ts[Len(ts)][k].retval)

\* saveSession(): fs.writeFile completes; what follows the await in the caller
WriteDone(b, t, ok) ==
    /\ proc = "running"
    /\ tasks[b][t].pc \in {"ub_save", "stop_save"}
    /\ IF ok
       THEN /\ files' = [files EXCEPT ![bots[b].wallet] = JSONstringify(tasks[b][t].sessionData)]
            /\ UNCHANGED used
       ELSE /\ used.writeFailures < budget.writeFailures
            /\ used' = [used EXCEPT !.writeFailures = @ + 1]
            /\ UNCHANGED files
    /\ LET task == tasks[b][t]
       IN  IF task.pc = "ub_save"
           THEN \* logStatus(); updateBalance() returns to the loop or to stop()
                /\ SetTask(b, t, afterUpdate([task EXCEPT !.pc = "ret"], t, currentEarnings[b],
                                             miningState[b], referralBonus[b]))
                /\ UNCHANGED << totalPaid, proc >>
           ELSE IF IsObject(currentEarnings[b])
           THEN \* return this.currentEarnings.paid; the handler goes on once all have returned
                LET done == [tasks EXCEPT ![b][t] = [Done(task) EXCEPT
                                 !.pc = "returned", !.retval = currentEarnings[b].paid]]
                IN  /\ tasks' = done
                    /\ IF \A c \in Bots : done[c][t].pc = "returned"
                       THEN /\ totalPaid' = SumPaid(done, t)
                            /\ proc' = "exited"
                       ELSE UNCHANGED << totalPaid, proc >>
           ELSE \* TypeError out of stop(): Promise.all rejects, the rejection is unhandled
                /\ SetTask(b, t, [NoTask EXCEPT !.pc = "threw"])
                /\ proc' \in {"running", "crashed"}
                /\ UNCHANGED totalPaid
    /\ UNCHANGED << walletsFile, now, instance, isRunning, bots, startPc, handlers, sigints,
                    currentEarnings, miningState, referralBonus, cycles, budget, rt >>

\* startMiningLoop(): the 30 s timer fires, the loop tests isActive
IdleElapsed(b) ==
    /\ proc = "running"
    /\ tasks[b][0].pc = "loop_idle"
    /\ IF ~miningState[b].isActive
       THEN /\ SetTask(b, 0, [NoTask EXCEPT !.pc = "loop_done"])
            /\ UNCHANGED cycles
       ELSE /\ cycles[b] < budget.cycles
            /\ cycles' = [cycles EXCEPT ![b] = @ + 1]
            /\ SetTask(b, 0, afterUpdate(updateBalance([Done(tasks[b][0]) EXCEPT !.invalid = FALSE,
                                                                               !.synced = FALSE],
                                                       FALSE, currentEarnings[b],
                                                       miningState[b], referralBonus[b], now),
                                         0, currentEarnings[b], miningState[b], referralBonus[b]))
    /\ UNCHANGED << walletsFile, files, now, coordVars, sigints, proc,
                    currentEarnings, miningState, referralBonus, budget, used, rt >>

\* stop() up to its first await
stop(b, k) ==
    LET ms == [miningState[b] EXCEPT !.isActive = FALSE]
        call == [NoTask EXCEPT !.wasActive = miningState[b].isActive,
                               !.fresh = tasks[b][0].fresh,
                               !.priorSyncs = tasks[b][0].syncs]
    IN  afterUpdate(updateBalance(call, TRUE, currentEarnings[b], ms, referralBonus[b], now),
                    k, currentEarnings[b], ms, referralBonus[b])

\* SIGINT: the listener calls stop() on every bot; without a listener the process is killed
Sigint ==
    /\ proc = "running"
    /\ sigints < budget.interrupts
    /\ sigints' = sigints + 1
    /\ IF handlers = 0
       THEN /\ proc' = "killed"
            /\ UNCHANGED << miningState, tasks >>
       ELSE /\ miningState' = [b \in Bots |-> [miningState[b] EXCEPT !.isActive = FALSE]]
            /\ tasks' = [b \in Bots |-> [tasks[b] EXCEPT ![sigints + 1] = stop(b, sigints + 1)]]
            /\ UNCHANGED proc
    /\ UNCHANGED << walletsFile, files, now, coordVars, currentEarnings, referralBonus,
                    cycles, budget, used, rt >>

\* time passes
Tick ==
    /\ proc = "running"
    /\ now < MaxTime
    /\ now - StartClock < budget.ticks
    /\ budget.lateTicks =>
            Bots # {} /\ \A b \in Bots : tasks[b][0].pc \notin {"reg", "load"}
    /\ now' = now + 1
    /\ UNCHANGED << walletsFile, files, coordVars, sigints, proc, agentVars, budget, used, rt >>

Next ==
    \/ Construct
    \/ Start
    \/ WalletsLoaded
    \/ Sigint
    \/ Tick
    \/ \E b \in Bots, t \in Tids : RequestFails(b, t)
    \/ \E b \in Bots, t \in Tids : BackoffElapsed(b, t)
    \/ \E b \in Bots, resp \in RegResponses : RegResponse(b, resp)
    \/ \E b \in Bots : LoadDone(b)
    \/ \E b \in Bots, t \in Tids, success \in BOOLEAN :
            \E balance \in ServerBalances(tasks[b][t].payload) :
                UpdateResponse(b, t, success, balance)
    \/ \E b \in Bots, t \in Tids, ok \in BOOLEAN : WriteDone(b, t, ok)
    \/ \E b \in Bots : IdleElapsed(b)

(***************************************************************************)
(* retryRequest on its own: any ceiling, any script of outcomes of the     *)
(* successive requestFn() calls (TRUE: resolves, FALSE: rejects).          *)
(***************************************************************************)
InitRetry ==
    /\ InitWith({Unreadable}, {Missing},
                [cycles |-> 0, interrupts |-> 0, ticks |-> 0, lateTicks |-> FALSE,
                 limitFailures |-> TRUE, failures |-> 0, writeFailures |-> 0,
                 extraCalls |-> 0, ownBalance |-> FALSE,
                 regResponses |-> {}])
    /\ \E retries \in 1..MaxRetries :
          \E script \in [1..retries -> BOOLEAN] :
              rt = [f |-> RetryEnter(retries), script |-> script]

RetryIdle == UNCHANGED << walletsFile, files, now, coordVars, sigints, proc, agentVars,
                         budget, used >>

RequestResolves ==
    /\ rt.f.status = "awaiting"
    /\ rt.script[rt.f.calls]
    /\ rt' = [rt EXCEPT !.f = RetryResolve(@)]
    /\ RetryIdle

RequestRejects ==
    /\ rt.f.status = "awaiting"
    /\ ~rt.script[rt.f.calls]
    /\ rt' = [rt EXCEPT !.f = RetryCatch(@)]
    /\ RetryIdle

TimerFires ==
    /\ rt.f.status = "sleeping"
    /\ rt' = [rt EXCEPT !.f = RetryWake(@)]
    /\ RetryIdle

NextRetry == RequestResolves \/ RequestRejects \/ TimerFires

(***************************************************************************)
(* The coordinator on its own: construction and start() on any wallet      *)
(* list, the Agents created but not yet running.                           *)
(***************************************************************************)
InitCoordinator ==
    /\ rt = InitRt
    /\ InitWith(WalletLists, {Missing},
                [cycles |-> 0, interrupts |-> 0, ticks |-> 0, lateTicks |-> FALSE,
                 limitFailures |-> TRUE, failures |-> 0, writeFailures |-> 0,
                 extraCalls |-> MaxExtraCalls, ownBalance |-> FALSE,
                 regResponses |-> {}])

NextCoordinator == Construct \/ Start \/ WalletsLoaded

(***************************************************************************)
(* One Agent whose timers fire, whose requests answer and whose file       *)
(* operations complete; the interrupt may never come.                      *)
(***************************************************************************)
InitLive == rt = InitRt /\ InitWith(SoloFiles, {Missing, EmptyObject},
                     [cycles |-> MaxCycles, interrupts |-> 1, ticks |-> 1, lateTicks |-> TRUE,
                      limitFailures |-> FALSE, failures |-> 0, writeFailures |-> 0,
                      extraCalls |-> 0, ownBalance |-> FALSE,
                      regResponses |-> {NotRegistered} \cup Registered({1, -2})])

LiveBots == {1}
LiveTids == {0, 1}

\* a request attempt in flight completes, with an answer or with an error
AttemptCompletes(b, t) ==
    \/ RequestFails(b, t)
    \/ \E resp \in RegResponses : t = 0 /\ RegResponse(b, resp)
    \/ \E success \in BOOLEAN : \E balance \in ServerBalances(tasks[b][t].payload) :
           UpdateResponse(b, t, success, balance)

\* setTimeout callbacks run, axios promises settle, fs promises settle
Fairness ==
    \A b \in LiveBots :
        /\ WF_vars(b \in Bots /\ IdleElapsed(b))
        /\ WF_vars(b \in Bots /\ LoadDone(b))
        /\ \A t \in LiveTids :
              /\ WF_vars(b \in Bots /\ t \in Tids /\ AttemptCompletes(b, t))
              /\ WF_vars(b \in Bots /\ t \in Tids /\ BackoffElapsed(b, t))
              /\ WF_vars(b \in Bots /\ t \in Tids /\ \E ok \in BOOLEAN : WriteDone(b, t, ok))

Spec == Init /\ [][Next]_vars
SpecLive == InitLive /\ [][Next]_vars /\ Fairness
SpecCoordinator == InitCoordinator /\ [][NextCoordinator]_vars
SpecRetry == InitRetry /\ [][NextRetry]_vars
SpecDrain == InitDrain /\ [][Next]_vars
SpecFleet == InitFleet /\ [][Next]_vars

(***************************************************************************)
(* Properties.                                                             *)
(***************************************************************************)
StopCalls == Tids \ {0}
StopInvoked(b) == \E k \in StopCalls : tasks[b][k].pc # "none"
IsNumber(v) == v \notin {Null, Undefined, NaN}
ConstructorEarnings == [total |-> 0, pending |-> 0, paid |-> 0]

\* C1: an Agent becomes active only at the end of its initialization, isActive
\* falls only in stop() and only in the first stop(), and once stop() has been
\* invoked isActive is never true again.
C1_NoActiveAfterStop ==
    [][\A b \in Bots :
         /\ (~miningState[b].isActive /\ miningState'[b].isActive)
               => tasks[b][0].pc = "load"
         /\ (miningState[b].isActive /\ ~miningState'[b].isActive)
               => (sigints' = sigints + 1 /\ ~StopInvoked(b))
         /\ StopInvoked(b) => ~miningState'[b].isActive]_vars

\* C2: the step that applies a response with success = true sets total to the
\* server's balance, pending to 0 (final) or the increment n of that call, and
\* paid to the paid held just before plus n (final) or to that paid unchanged.
C2_SuccessfulUpdate ==
    [][\A b \in Bots : \A t \in Tids :
         (tasks[b][t].pc = "ub" /\ tasks'[b][t].pc = "ub_save")
           => LET n == tasks[b][t].newEarnings
                  final == tasks[b][t].finalUpdate
                  old == currentEarnings[b]
                  new == currentEarnings'[b]
              IN  /\ tasks'[b][t].response.success
                  /\ new.total = tasks'[b][t].response.balance
                  /\ new.pending = IF final THEN 0 ELSE n
                  /\ new.paid = IF final THEN Add(old.paid, n) ELSE old.paid]_vars

\* a final update with a positive increment has just been applied
C2_Witness ==
    \E b \in Bots : \E t \in Tids :
        /\ tasks[b][t].pc = "ub_save"
        /\ tasks[b][t].finalUpdate
        /\ tasks[b][t].newEarnings > 0
        /\ currentEarnings[b].pending = 0
        /\ currentEarnings[b].paid >= tasks[b][t].newEarnings
        /\ currentEarnings[b].total = tasks[b][t].response.balance

\* C3: a snapshot just set by a successful update-balance response has
\* total >= paid.
C3_TotalAtLeastPaid ==
    \A b \in Bots : \A t \in Tids :
        (/\ tasks[b][t].pc = "ub_save"
         /\ IsNumber(currentEarnings[b].total)
         /\ IsNumber(currentEarnings[b].paid))
          => currentEarnings[b].total >= currentEarnings[b].paid

\* C4: when stop() on an active Agent returns after its final update was applied
\* (and no write failed), the snapshot and the session file have pending = 0 and
\* the returned value is the paid of both.
C4_StopFoldsPending ==
    \A b \in Bots : \A k \in StopCalls :
        (/\ tasks[b][k].pc = "returned"
         /\ tasks[b][k].wasActive
         /\ tasks[b][k].synced
         /\ used.writeFailures = 0)
          => LET file == files[bots[b].wallet]
             IN  /\ currentEarnings[b].pending = 0
                 /\ tasks[b][k].retval = currentEarnings[b].paid
                 /\ file # Missing
                 /\ IsObject(file.earnings)
                 /\ file.earnings.pending = 0
                 /\ file.earnings.paid = tasks[b][k].retval

\* C5: at most one updateBalance() call of an Agent is between its accrual read
\* and the completion of its update-balance request.
C5_OneSyncInFlight ==
    \A b \in Bots : Cardinality({t \in Tids : tasks[b][t].pc = "ub"}) <= 1

\* C6: when the process has exited, every stop() the interrupts invoked has
\* returned and totalPaid is the sum of the values one drain's stop() calls returned.
C6_ExitAfterEveryStop ==
    proc = "exited" =>
        /\ \A b \in Bots : \A k \in 1..sigints : tasks[b][k].pc = "returned"
        /\ \E k \in 1..sigints : totalPaid = SumPaid(tasks, k)

\* C7: a step in which only Agent b's calls move changes neither another Agent's
\* snapshot, mining state or referral bonus nor that Agent's session file.
C7_AgentsIndependent ==
    [][\A b \in Bots : \A c \in Bots \ {b} :
         (tasks'[b] # tasks[b] /\ tasks'[c] = tasks[c])
           => /\ currentEarnings'[c] = currentEarnings[c]
              /\ miningState'[c] = miningState[c]
              /\ referralBonus'[c] = referralBonus[c]
              /\ files'[bots[c].wallet] = files[bots[c].wallet]]_vars

\* C8: an Agent whose registration check failed on every attempt or answered
\* "not registered" is not active, has run no cycle, and has the start time,
\* the referral bonus and the snapshot its constructor set.
RegistrationFailed(b) ==
    /\ tasks[b][0].pc = "init_failed"
    /\ \/ tasks[b][0].req.status = "thrown"
       \/ tasks[b][0].regResponse = NotRegistered
C8_UnregisteredStaysPristine ==
    \A b \in Bots :
        RegistrationFailed(b)
          => /\ ~miningState[b].isActive
             /\ cycles[b] = 0
             /\ miningState[b].startTime = Null
             /\ referralBonus[b] = 0
             /\ currentEarnings[b] = ConstructorEarnings

\* C9: an updateBalance() call whose increment is not a number, NaN or negative
\* issues no request, starts no checkpoint write, changes no session file, and
\* (when it is not the call initialize() makes right after setting the snapshot)
\* leaves the snapshot as it was.
InvalidIncrement(n) == n \in {Null, Undefined, NaN} \/ n < 0
C9_InvalidIncrementAbandons ==
    [][\A b \in Bots : \A t \in Tids :
         LET first == t = 0 /\ tasks[b][t].pc = "load" /\ cycles'[b] = cycles[b] + 1
             next == t = 0 /\ tasks[b][t].pc = "loop_idle" /\ cycles'[b] = cycles[b] + 1
             final == t # 0 /\ tasks[b][t].pc = "none" /\ tasks'[b][t].pc # "none"
             n == calculateEarnings(miningState'[b], referralBonus'[b], now)
         IN  ((first \/ next \/ final) /\ InvalidIncrement(n))
               => /\ tasks'[b][t].pc \notin {"ub", "ub_save"}
                  /\ tasks'[b][t].req.calls = 0
                  /\ files' = files
                  /\ (next \/ final) => currentEarnings'[b] = currentEarnings[b]]_vars

\* the loop of an active Agent with a negative referral bonus has abandoned a cycle
C9_Witness ==
    \E b \in Bots :
        /\ tasks[b][0].pc = "loop_idle"
        /\ tasks[b][0].invalid
        /\ referralBonus[b] < 0
        /\ IsNumber(referralBonus[b])
        /\ miningState[b].isActive

\* C10: retryRequest calls requestFn at most retries times and never after its
\* first success; k < retries failures then a success: k + 1 calls and that
\* success returned; only failures: retries calls and the last failure thrown;
\* the delay before attempt i + 1 is 2000 * i ms, strictly increasing.
C10_RetryRequest ==
    LET f == rt.f
        wins == {j \in 1..f.retries : rt.script[j]}
        first == IF wins = {} THEN 0 ELSE CHOOSE j \in wins : \A m \in wins : j <= m
    IN  /\ f.calls <= f.retries
        /\ first # 0 => f.calls <= first
        /\ f.status \in {"awaiting", "sleeping", "returned", "thrown"}
        /\ f.status = "returned" => (first # 0 /\ f.calls = first /\ f.result = first)
        /\ f.status = "thrown" => (first = 0 /\ f.calls = f.retries /\ f.result = f.retries)
        /\ f.status = "sleeping" => Len(f.delays) = f.calls
        /\ f.status # "sleeping" => Len(f.delays) = f.calls - 1
        /\ \A j \in 1..Len(f.delays) : f.delays[j] = 2000 * j
        /\ \A j \in 1..(Len(f.delays) - 1) : f.delays[j] < f.delays[j + 1]

\* requestFn failed twice, then succeeded: three calls, the third one's value returned
C10_Witness ==
    /\ rt.script = <<FALSE, FALSE, TRUE>>
    /\ rt.f.status = "returned"
    /\ rt.f.calls = 3
    /\ rt.f.delays = <<2000, 4000>>

\* C11: an Agent that becomes active on a session record saveSession() wrote in an
\* earlier run (no stop() has run in this one) has the record's startTime,
\* earnings and referralBonus.
C11_SessionRoundTrip ==
    [][\A b \in Bots :
         LET file == files[bots[b].wallet]
         IN  (/\ tasks[b][0].pc = "load"
              /\ sigints = 0
              /\ miningState'[b].isActive
              /\ file # Missing
              /\ IsObject(file.earnings))
               => /\ miningState'[b].startTime = file.startTime
                  /\ currentEarnings'[b] = file.earnings
                  /\ referralBonus'[b] = file.referralBonus]_vars

\* C12 as stated: stop() called on a freshly initialized, active Agent (whose
\* referral bonus is not negative) returns the
\* starting total (the referral bonus) when no update had succeeded before the
\* call, and the paid confirmed so far (0 for a fresh Agent) plus the increment
\* of the final update when exactly one periodic update had.
C12_StopReturnsStartingTotal ==
    \A b \in Bots : \A k \in StopCalls :
        (/\ tasks[b][k].pc = "returned"
         /\ tasks[b][k].fresh
         /\ tasks[b][k].wasActive
         /\ referralBonus[b] >= 0)
          => /\ tasks[b][k].priorSyncs = 0 => tasks[b][k].retval = referralBonus[b]
             /\ tasks[b][k].priorSyncs = 1 => tasks[b][k].retval = Add(0, tasks[b][k].increment)

RECURSIVE SumFolded(_, _)
SumFolded(ts, n) == IF n = 0 THEN 0 ELSE Add(SumFolded(ts, n - 1), ts[n].folded)

\* C12 amended: the value stop() returns on a freshly initialized, active Agent is
\* the sum of the increments that final updates have folded into paid by then:
\* 0 when its final update did not succeed, whatever the referral bonus and
\* however many periodic updates succeeded.
C12_StopReturnsFolded ==
    [][\A b \in Bots : \A k \in StopCalls :
         (/\ tasks[b][k].pc = "stop_save"
          /\ tasks'[b][k].pc = "returned"
          /\ tasks[b][k].fresh
          /\ tasks[b][k].wasActive)
           => /\ tasks'[b][k].retval = SumFolded(tasks[b], budget.interrupts)
              /\ ~tasks[b][k].synced => tasks[b][k].folded = 0]_vars

\* stop() returned the final increment on an Agent with referral bonus 1 after one
\* periodic update had succeeded
C12_Witness ==
    \E b \in Bots : \E k \in StopCalls :
        /\ tasks[b][k].pc = "returned"
        /\ tasks[b][k].fresh
        /\ tasks[b][k].wasActive
        /\ tasks[b][k].priorSyncs = 1
        /\ referralBonus[b] = 1
        /\ tasks[b][k].folded > 0
        /\ tasks[b][k].retval = tasks[b][k].folded

\* a line is well formed when, between blanks, it is "0x" and exactly 40 hex digits
HexDigits == {"0", "1", "2", "3", "4", "5", "6", "7", "8", "9"}
HexLetters == {"a", "b", "c", "d", "e", "f"} \cup {"A", "B", "C", "D", "E", "F"}
AddressAt(line, l) ==
    /\ \A k \in 1..l : line[k] = " "
    /\ l + 2 + HexLen <= Len(line)
    /\ line[l + 1] = "0"
    /\ line[l + 2] = "x"
    /\ \A k \in (l + 3)..(l + 2 + HexLen) : line[k] \in HexDigits \cup HexLetters
    /\ \A k \in (l + 3 + HexLen)..Len(line) : line[k] = " "
WellFormed(line) == \E l \in 0..Len(line) : AddressAt(line, l)
Address(line) == LET l == CHOOSE l \in 0..Len(line) : AddressAt(line, l)
                 IN  [k \in 1..(2 + HexLen) |-> line[l + k]]
\* the fleet the wallet list calls for: the j-th well-formed line gives Agent j
ExpectedFleet(file) ==
    LET good == IF file = Unreadable THEN {}
                ELSE {k \in 1..Len(file) : WellFormed(file[k])}
        pos(j) == CHOOSE k \in good : Cardinality({m \in good : m < k}) = j - 1
    IN  [j \in 1..Cardinality(good) |-> [wallet |-> Address(file[pos(j)]), botIndex |-> j]]

\* C13: once start() has run on a coordinator that was not running, the fleet is
\* one Agent per well-formed line of wallets.txt, in file order, indexed 1..n,
\* each with initialize() started; without a well-formed line (or without a
\* readable file) start() ends with no Agent created and none initialized.
C13_FleetFromWalletList ==
    LET fleet == ExpectedFleet(walletsFile)
    IN  /\ startPc \in {"idle", "loading"} => (bots = << >> /\ tasks = << >>)
        /\ startPc = "started"
             => /\ fleet # << >>
                /\ bots = fleet
                /\ DOMAIN tasks = DOMAIN fleet
                /\ \A b \in Bots : tasks[b][0].pc = "reg" /\ tasks[b][0].req.calls = 1
        /\ startPc = "aborted"
             => (fleet = << >> /\ bots = << >> /\ tasks = << >> /\ handlers = 0)

\* a padded well-formed line after a malformed one: one Agent, index 1, trimmed wallet
C13_Witness ==
    /\ walletsFile = <<LineLong, LinePadded>>
    /\ startPc = "started"
    /\ bots = <<[wallet |-> LineA, botIndex |-> 1]>>

\* C14: a construction after the first leaves the instance, bots, totalPaid and
\* isRunning as they are; start() on a running coordinator creates no Agent and
\* registers no listener; the fleet is built and the listener registered at most
\* once.
C14_SingletonAndStartOnce ==
    [][/\ (instance /\ used'.constructions # used.constructions)
            => /\ instance'
               /\ bots' = bots
               /\ totalPaid' = totalPaid
               /\ isRunning' = isRunning
       /\ (isRunning /\ used'.starts # used.starts)
            => /\ bots' = bots
               /\ tasks' = tasks
               /\ handlers' = handlers
               /\ startPc' = startPc
               /\ isRunning'
       /\ bots' # bots => (bots = << >> /\ handlers = 0)
       /\ handlers' # handlers => (handlers = 0 /\ handlers' = 1)]_vars

\* a started fleet of two Agents after a repeated construction and a repeated start()
C14_Witness ==
    /\ used.constructions >= 1
    /\ used.starts >= 1
    /\ startPc = "started"
    /\ Len(bots) = 2
    /\ handlers = 1
    /\ isRunning

\* C15: once an Agent has been activated its snapshot changes only in the step
\* that applies an update-balance response with success = true; running out of
\* retries, a response with success = false, a checkpoint write that fails or
\* succeeds, and the idle delay leave it as it is.
Activated(b) == tasks[b][0].pc \in {"ub", "ub_save", "loop_idle", "loop_done"}
C15_SnapshotChangesOnSuccessOnly ==
    [][\A b \in Bots :
         (Activated(b) /\ currentEarnings'[b] # currentEarnings[b])
           => \E t \in Tids :
                 /\ tasks[b][t].pc = "ub"
                 /\ tasks[b][t].req.status = "awaiting"
                 /\ tasks'[b][t].pc = "ub_save"
                 /\ tasks'[b][t].response.success]_vars

\* an active Agent idles after an update was applied and its checkpoint write failed
C15_Witness ==
    \E b \in Bots :
        /\ tasks[b][0].pc = "loop_idle"
        /\ miningState[b].isActive
        /\ tasks[b][0].syncs = 1
        /\ currentEarnings[b].pending > 0
        /\ used.writeFailures = 1
        /\ files[bots[b].wallet] = Missing

\* C16: when the latest cycle of an active Agent's loop ended without an applied
\* update (retries exhausted, success = false, or increment rejected), the Agent
\* is active as long as stop() has not been invoked, and the loop starts another
\* cycle unless stop() is invoked.
CycleFailed(b, c) ==
    /\ b \in Bots
    /\ tasks[b][0].pc \in {"loop_idle", "loop_done"}
    /\ ~tasks[b][0].synced
    /\ cycles[b] = c
    /\ c < budget.cycles
C16_FailedCycleNotFatal ==
    \A b \in LiveBots : \A c \in 1..MaxCycles :
        /\ []((CycleFailed(b, c) /\ ~StopInvoked(b)) => miningState[b].isActive)
        /\ (CycleFailed(b, c) /\ ~StopInvoked(b))
              ~> (b \in Bots /\ (StopInvoked(b) \/ (cycles[b] > c /\ tasks[b][0].pc # "loop_done")))

\* the second cycle is in flight after the first was rejected by the server or ran
\* out of retries, with no stop() invoked
C16_Witness ==
    \E b \in Bots :
        /\ cycles[b] = 2
        /\ tasks[b][0].pc = "ub"
        /\ tasks[b][0].syncs = 0
        /\ ~StopInvoked(b)
        /\ miningState[b].isActive

\* a cycle whose increment was rejected is followed by another cycle
C16_WitnessRejected ==
    \E b \in Bots :
        /\ cycles[b] = 2
        /\ tasks[b][0].pc = "loop_idle"
        /\ tasks[b][0].invalid
        /\ ~StopInvoked(b)
        /\ miningState[b].isActive

\* a session file that is not a record with startTime, earnings and referralBonus
Malformed(file) ==
    \/ file = Missing
    \/ file.startTime = Undefined
    \/ ~IsObject(file.earnings)
    \/ file.referralBonus = Undefined

\* C17: an Agent that becomes active over a missing or malformed session file is
\* in the fresh-start state: referral bonus of the registration response (0 if it
\* has none), snapshot {total: referralBonus, pending: 0, paid: 0}, start time now.
C17_MalformedSessionIsFreshStart ==
    [][\A b \in Bots :
         (/\ tasks[b][0].pc = "load"
          /\ sigints = 0
          /\ Malformed(files[bots[b].wallet])
          /\ IsObject(tasks[b][0].regResponse.userData)
          /\ tasks'[b][0].pc # "load")
           => LET bonus == tasks[b][0].regResponse.userData.referralBonus
                  rb == IF Truthy(bonus) THEN bonus ELSE 0
              IN  /\ miningState'[b].isActive
                  /\ referralBonus'[b] = rb
                  /\ currentEarnings'[b] = [total |-> rb, pending |-> 0, paid |-> 0]
                  /\ miningState'[b].startTime = now]_vars

\* C18: however many interrupts arrive, stop() is invoked at most once on each
\* Agent and at most one final update of it is sent.
C18_StopAtMostOnce ==
    \A b \in Bots :
        /\ Cardinality({k \in StopCalls : tasks[b][k].pc # "none"}) <= 1
        /\ Cardinality({k \in StopCalls : tasks[b][k].finalUpdate
                                           /\ tasks[b][k].req.calls > 0}) <= 1

\* C19: an Agent that has not reached Active (registration pending, failed or
\* refused, session still loading) has no update-balance request in flight and no
\* session write in progress.
NeverActive(b) == tasks[b][0].pc \in {"reg", "load", "init_failed"}
C19_InactiveAgentSendsNothing ==
    \A b \in Bots : \A t \in Tids :
        NeverActive(b) => tasks[b][t].pc \notin {"ub", "ub_save", "stop_save"}

\* C20: after an interrupt on a non-empty fleet, when no stop() of the drain has
\* anything left to wait for, every stop() has returned and the process has
\* exited.
C20_DrainTerminates ==
    (/\ sigints >= 1
     /\ Bots # {}
     /\ \A b \in Bots : \A k \in 1..sigints :
            tasks[b][k].pc \notin {"ub", "ub_save", "stop_save"})
      => /\ \A b \in Bots : \E k \in 1..sigints : tasks[b][k].pc = "returned"
         /\ proc = "exited"

====
